---- MODULE Spec2Model ----
(***************************************************************************)
(* Model of bedrockci's log-driven validation engine:                      *)
(*   lib/src/validate.rs      start_server, process_line                   *)
(*   cli/src/commands/run.rs  start_and_run_server, process_server_line    *)
(*   cli/src/commands/validate.rs  handle_validation_results               *)
(*                                                                         *)
(* A line of server output is a sequence of tokens.  A token is a piece of *)
(* text that the code never looks inside (a word, a marker literal) or one *)
(* of the single characters the code does look at: " ", "[", "]", "=".     *)
(* str::contains is substring search over the token sequence.              *)
(***************************************************************************)
EXTENDS Integers, Sequences, FiniteSets, TLC

\* ---------------------------------------------------------------- bounds
\* lines the child may emit on both streams together in one run
MaxLines == 4
\* saturation point of the clock reading "now - last_log_time"
MaxElapsed == 7
\* operator interrupts (SIGINT) delivered during one interactive run
MaxInterrupts == 2
\* calls of start_server in a row
MaxRuns == 2
\* server versions that can be installed: 1..MaxVersion, in version order
MaxVersion == 3
\* pack directories the user can name
MaxPacks == 2
\* findings of one severity handed to the report
MaxFindings == 3

\* ------------------------------------------------------ program constants
\* Duration::from_secs(5) of the armed timeout
Timeout == 5
\* length of the separator literal searched for by process_line
SeparatorLen == 54
\* splitn(3, ']')
SplitLimit == 3
\* "--last-log-timeout ... (default: 2)"
DefaultLastLogTimeout == 2

\* -------------------------------------------------------------- strings
Rep(tok, n) == [i \in 1..n |-> tok]

\* str::contains
Contains(s, pat) ==
    \E i \in 0..(Len(s) - Len(pat)) : SubSeq(s, i + 1, i + Len(pat)) = pat

IsWhitespace(tok) == tok = " "

RECURSIVE TrimStart(_)
TrimStart(s) ==
    IF s # <<>> /\ IsWhitespace(Head(s)) THEN TrimStart(Tail(s)) ELSE s

RECURSIVE TrimEnd(_)
TrimEnd(s) ==
    IF s # <<>> /\ IsWhitespace(s[Len(s)])
    THEN TrimEnd(SubSeq(s, 1, Len(s) - 1)) ELSE s

\* str::trim
Trim(s) == TrimEnd(TrimStart(s))

\* the literals process_line searches for
ServerStartedMarker == <<"Server started.">>
TelemetryMarker == <<"TELEMETRY MESSAGE">>
\* variant: the literal is one character longer
SeparatorLonger == Rep("=", SeparatorLen + 1)

Separator == Rep("=", SeparatorLen)
ErrorKw == <<"ERROR">>
WarnKw == <<"WARN">>
InfoKw == <<"INFO">>

\* ------------------------------------------------- lines the child emits
LStarting == <<"Starting Server">>
LReady == <<"Server started.">>
LTelemetry == <<"TELEMETRY MESSAGE", " ", "xyz">>
LJunk == <<"junk line">>
LSep54 == Rep("=", 54)
LSep52 == Rep("=", 52)
LInfo == <<"[", "INFO", "]", " ", "[", "General", "]", " ", "all good">>
LError == <<"[", "ERROR", "]", " ", "[", "PackLoader", "]", " ", "bad manifest">>
\* one ']' only, and padded with blanks that trim removes
LWarn == <<" ", "[", "WARN", "]", " ", "low memory", " ">>
\* no ']' at all, all three severity keywords
LMixed == <<"INFO", " ", "WARN", " ", "ERROR">>
\* server-ready marker together with the telemetry marker and a keyword
LReadyTelemetry == <<"Server started.", " ", "TELEMETRY MESSAGE", " ", "ERROR">>
LBlank == <<" ", " ">>
\* findings only the error stream of the two-stream run carries
LStderrError == <<"[", "ERROR", "]", " ", "[", "Stderr", "]", " ", "second">>
LStderrWarn == <<"[", "WARN", "]", " ", "[", "Stderr", "]", " ", "third">>

Lines == { LReady, LTelemetry, LJunk, LSep54, LInfo, LError, LWarn, LMixed,
           LReadyTelemetry, LBlank }

\* what the child writes to stdout and to stderr in the two-stream run
OutScript == << LReady, LError, LInfo, LMixed >>
ErrScript == << LWarn, LStderrError, LStderrWarn >>

\* the end-to-end scenario of the specification, with either separator
ScenarioLines(sep) ==
    << LStarting, LReady, LTelemetry, LJunk, sep, LInfo, LError >>

\* ------------------------------------------------------------ process_line
\* the tracker state process_line works on
EmptyResult == [errors |-> <<>>, warnings |-> <<>>, info |-> <<>>]

IsServerStarted(line) == Contains(line, ServerStartedMarker)

IsTelemetryBegin(line) == Contains(line, TelemetryMarker)

\* variant: a separator ends a block whether or not one is open
IsTelemetryEndAnywhere(line, seen) == Contains(line, Separator)

IsTelemetryEnd(line, seen) == seen /\ Contains(line, Separator)

\* variant: the gate forgets the server-ready flag
GateIgnoresStarted(started, seen) == seen

\* variant: the gate forgets the telemetry block
GateIgnoresBlock(started, seen) == ~started

\* "Skip all logs before telemetry block is complete"
GateClosed(started, seen) == ~started \/ seen

HasSeverity(line) ==
    Contains(line, ErrorKw) \/ Contains(line, WarnKw) \/ Contains(line, InfoKw)

\* variant: WARN is looked for before ERROR
CategorizeWarnFirst(line, vr) ==
    IF Contains(line, WarnKw)
    THEN [vr EXCEPT !.warnings = Append(@, line)]
    ELSE IF Contains(line, ErrorKw)
    THEN [vr EXCEPT !.errors = Append(@, line)]
    ELSE IF Contains(line, InfoKw)
    THEN [vr EXCEPT !.info = Append(@, line)]
    ELSE vr

\* "Categorize and print the log message"
Categorize(line, vr) ==
    IF Contains(line, ErrorKw)
    THEN [vr EXCEPT !.errors = Append(@, line)]
    ELSE IF Contains(line, WarnKw)
    THEN [vr EXCEPT !.warnings = Append(@, line)]
    ELSE IF Contains(line, InfoKw)
    THEN [vr EXCEPT !.info = Append(@, line)]
    ELSE vr

\* st = [vr, elapsed, seen, started, complete]; elapsed is now - last_log_time
\* variant: a new telemetry block disarms the timeout
TelemetryBeginDisarms(st) ==
    [st EXCEPT !.seen = TRUE, !.complete = FALSE, !.elapsed = 0]

TelemetryBeginEffect(st) == [st EXCEPT !.seen = TRUE, !.elapsed = 0]

TelemetryEndEffect(st) ==
    [st EXCEPT !.seen = FALSE, !.complete = TRUE, !.elapsed = 0]

\* variant: the telemetry marker is looked for before the server-ready marker
process_lineTelemetryFirst(line, st) ==
    IF IsTelemetryBegin(line) THEN TelemetryBeginEffect(st)
    ELSE IF IsServerStarted(line) THEN [st EXCEPT !.started = TRUE]
    ELSE IF IsTelemetryEnd(line, st.seen) THEN TelemetryEndEffect(st)
    ELSE IF GateClosed(st.started, st.seen) THEN st
    ELSE [st EXCEPT !.elapsed = IF HasSeverity(line) THEN 0 ELSE @,
                    !.vr = Categorize(line, @)]

process_line(line, st) ==
    IF IsServerStarted(line) THEN [st EXCEPT !.started = TRUE]
    ELSE IF IsTelemetryBegin(line) THEN TelemetryBeginEffect(st)
    ELSE IF IsTelemetryEnd(line, st.seen) THEN TelemetryEndEffect(st)
    ELSE IF GateClosed(st.started, st.seen) THEN st
    ELSE [st EXCEPT !.elapsed = IF HasSeverity(line) THEN 0 ELSE @,
                    !.vr = Categorize(line, @)]

\* process_server_line of the interactive loop: only the started flag is state
process_server_line(line, started) ==
    IF Contains(line, ServerStartedMarker) THEN TRUE ELSE started

\* ------------------------------------------------ handle_validation_results
\* index of the first ']' of s, 0 when there is none
FirstBracket(s) ==
    IF \E i \in 1..Len(s) : s[i] = "]"
    THEN CHOOSE i \in 1..Len(s) : s[i] = "]" /\ \A j \in 1..(i - 1) : s[j] # "]"
    ELSE 0

\* str::splitn(n, ']'): at most n pieces, the last one holds the remainder
RECURSIVE SplitN(_, _)
SplitN(s, n) ==
    IF n <= 1 \/ FirstBracket(s) = 0 THEN << s >>
    ELSE << SubSeq(s, 1, FirstBracket(s) - 1) >>
         \o SplitN(SubSeq(s, FirstBracket(s) + 1, Len(s)), n - 1)

RECURSIVE TrimStartMatches(_, _)
TrimStartMatches(s, tok) ==
    IF s # <<>> /\ Head(s) = tok THEN TrimStartMatches(Tail(s), tok) ELSE s

RECURSIVE TrimEndMatches(_, _)
TrimEndMatches(s, tok) ==
    IF s # <<>> /\ s[Len(s)] = tok
    THEN TrimEndMatches(SubSeq(s, 1, Len(s) - 1), tok) ELSE s

\* One pass of the grouping loop body.  parts[1] and parts[2] of the source
\* are parts[2] and parts[3] here; indexing parts[2] of a two-element vector
\* panics.
GroupFinding(finding) ==
    LET parts == SplitN(finding, SplitLimit) IN
    IF Len(parts) >= 2
    THEN IF Len(parts) < 3
         THEN [panic |-> TRUE, category |-> <<>>, message |-> <<>>]
         ELSE [panic |-> FALSE,
               category |-> TrimEndMatches(TrimStartMatches(Trim(parts[2]), "["), "]"),
               message |-> Trim(parts[3])]
    ELSE [panic |-> FALSE, category |-> <<"Other">>, message |-> finding]

\* the grouping loop over one severity: does it run to its end
GroupingPanics(findings) ==
    \E i \in 1..Len(findings) : GroupFinding(findings[i]).panic

\* the final if / else if / else of handle_validation_results
Verdict(errors, warnings, only_warn, fail_on_warn) ==
    IF only_warn THEN "Ok"
    ELSE IF fail_on_warn
    THEN IF errors > 0 \/ warnings > 0 THEN "Err" ELSE "Ok"
    ELSE IF errors > 0 THEN "Err" ELSE "Ok"

handle_validation_results(vr, only_warn, fail_on_warn) ==
    IF vr.errors # <<>> /\ GroupingPanics(vr.errors) THEN "panic"
    ELSE IF vr.warnings # <<>> /\ GroupingPanics(vr.warnings) THEN "panic"
    ELSE Verdict(Len(vr.errors), Len(vr.warnings), only_warn, fail_on_warn)

\* ------------------------------------------------------------------ state
VARIABLES
    variant,            \* "validate": start_server, "run": start_and_run_server
    pc,                 \* position of the task
    ret,                \* what the function returned, "none" while running
    spawned,            \* the child process exists
    kill_called,        \* child.kill() was awaited
    wait_called,        \* child.wait() was awaited
    stdout_eof,         \* the child closed its stdout
    stderr_eof,         \* the child closed its stderr
    scenario,           \* "free": the child emits any lines; otherwise the
                        \* name of the scripted run
    feed,               \* scripted run: the lines the child has yet to emit
    nlines,             \* lines emitted so far
    line,               \* the trimmed line last handed to process_line
    validation_result,
    last_log_elapsed,   \* now - last_log_time, saturating at MaxElapsed
    telemetry_seen,
    server_started,
    telemetry_complete,
    timeout_future,     \* time left on the sleep of this iteration
    after_telemetry,    \* history: a line containing the telemetry marker was
                        \* processed and no separator has ended the block since
    after_begin,        \* same, for lines taken as telemetry-begin only
    after_ready,        \* history: a line containing the server-ready marker
                        \* was processed
    only_warn,
    fail_on_warn,
    outcome,            \* result of handle_validation_results
    interrupts,         \* operator interrupts delivered so far
    ctrl_c_ready,       \* the ctrl_c future of the current select was notified
    last_log_timeout,   \* Option<u64> of handle_validate: <<>> or <<seconds>>
    launch_outcome,     \* what the environment answered to this launch
    runs,               \* calls of start_server so far, this one included
    processed,          \* history: the lines handed to process_line in this run
    installed,          \* version directories under the server path
    version,            \* [arg, used]: the --version given, <<>> or <<v>>, and
                        \* the version handle_validate / handle_run settled on
    packs,              \* pack directories that exist
    bp_dir,             \* behavior_packs/TESTING_PACK_BP: <<>>, <<"dir">>
                        \* or <<"link", pack>>
    rp_dir,             \* resource_packs/TESTING_PACK_RP, likewise
    pack_args,          \* [op, bp, rp, valid] of the last pack installation
    pack_ret,           \* what that call returned
    report              \* what handle_validation_results printed: for errors
                        \* and for warnings the groups, first printed first

vars == << variant, pc, ret, spawned, kill_called, wait_called, stdout_eof,
           stderr_eof, scenario, feed, nlines, line, validation_result,
           last_log_elapsed, telemetry_seen, server_started,
           telemetry_complete, timeout_future, after_telemetry, after_begin,
           after_ready, only_warn, fail_on_warn, outcome, interrupts,
           ctrl_c_ready, last_log_timeout, launch_outcome, runs, processed,
           installed, version, packs, bp_dir, rp_dir, pack_args, pack_ret,
           report >>

child == << spawned, kill_called, wait_called >>
streams == << stdout_eof, stderr_eof, scenario, feed, nlines >>
tracker == << validation_result, last_log_elapsed, telemetry_seen,
              server_started, telemetry_complete >>
history == << after_telemetry, after_begin, after_ready, processed >>
policy == << only_warn, fail_on_warn, outcome, report >>
signals == << interrupts, ctrl_c_ready >>
config == << last_log_timeout >>
call == << launch_outcome, runs >>
setup == << installed, version, packs, bp_dir, rp_dir, pack_args, pack_ret >>

\* the values of --last-log-timeout tried: absent, and 3 seconds
LastLogTimeouts == { <<>>, << 3 >> }

\* nothing installed and no pack linked: the state the run loop does not touch
Unresolved == [arg |-> <<>>, used |-> <<>>]

NoPackCall == [op |-> "none", bp |-> 1, rp |-> 1, valid |-> FALSE]

InitSetup ==
    /\ installed = {}
    /\ version = Unresolved
    /\ packs = {}
    /\ bp_dir = <<>>
    /\ rp_dir = <<>>
    /\ pack_args = NoPackCall
    /\ pack_ret = "none"

\* variant: the phase flags and buckets of the previous call are kept
StaleTracker ==
    [vr |-> validation_result, elapsed |-> 0, seen |-> telemetry_seen,
     started |-> server_started, complete |-> telemetry_complete]

\* the locals start_server creates before the loop
FreshTracker ==
    [vr |-> EmptyResult, elapsed |-> 0, seen |-> FALSE, started |-> FALSE,
     complete |-> FALSE]

NothingPrinted == [errors |-> <<>>, warnings |-> <<>>]

InitCommon ==
    /\ pc = "start"
    /\ ret = "none"
    /\ spawned = FALSE
    /\ kill_called = FALSE
    /\ wait_called = FALSE
    /\ stdout_eof = FALSE
    /\ stderr_eof = FALSE
    /\ nlines = 0
    /\ line = <<>>
    /\ validation_result = EmptyResult
    /\ last_log_elapsed = 0
    /\ telemetry_seen = FALSE
    /\ server_started = FALSE
    /\ telemetry_complete = FALSE
    /\ timeout_future = 0
    /\ after_telemetry = FALSE
    /\ after_begin = FALSE
    /\ after_ready = FALSE
    /\ only_warn = FALSE
    /\ fail_on_warn = FALSE
    /\ outcome = "none"
    /\ report = NothingPrinted
    /\ interrupts = 0
    /\ ctrl_c_ready = FALSE
    /\ launch_outcome = "none"
    /\ runs = 1
    /\ processed = <<>>

Init ==
    /\ InitCommon
    /\ InitSetup
    /\ variant \in {"validate", "run"}
    /\ last_log_timeout \in IF variant = "validate" THEN LastLogTimeouts ELSE {<<>>}
    /\ scenario = "free"
    /\ feed = <<>>

\* the scripted run of the end-to-end scenario
InitScenario ==
    /\ InitCommon
    /\ InitSetup
    /\ variant = "validate"
    /\ last_log_timeout = <<>>
    /\ scenario \in {"sep54", "sep52"}
    /\ feed = ScenarioLines(IF scenario = "sep54" THEN LSep54 ELSE LSep52)

\* ---------------------------------------------------------------- launch
\* start_server up to the creation of the readers: what the environment
\* answers decides where it returns
\* "chmod_failed": the chmod command could not be run, output() is Err;
\* "chmod_refused": chmod ran and exited non-zero on an executable the user
\* may run all the same; output() is Ok and its exit status is not looked at
LaunchOutcomes ==
    { "path_missing", "exe_missing", "chmod_failed", "chmod_refused",
      "spawn_failed", "stdout_not_captured", "stderr_not_captured", "running" }

\* the launches that reach the loop
Launched(o) == o \in {"running", "chmod_refused"}

\* the launches that leave a child process behind
ChildSpawned(o) ==
    Launched(o) \/ o \in {"stdout_not_captured", "stderr_not_captured"}

\* variant: a missing executable is reported as a start failure
LaunchErrorExeIsStartFailure(o) ==
    IF o \in {"path_missing"} THEN "InvalidServerPath"
    ELSE "ServerStartFailed"

LaunchError(o) ==
    IF o \in {"path_missing", "exe_missing"} THEN "InvalidServerPath"
    ELSE "ServerStartFailed"

StartServer ==
    /\ pc = "start"
    /\ variant = "validate"
    /\ \E o \in LaunchOutcomes :
        /\ launch_outcome' = o
        /\ spawned' = ChildSpawned(o)
        /\ IF Launched(o)
           THEN /\ pc' = "loop" /\ ret' = ret
                /\ validation_result' = FreshTracker.vr
                /\ last_log_elapsed' = FreshTracker.elapsed
                /\ telemetry_seen' = FreshTracker.seen
                /\ server_started' = FreshTracker.started
                /\ telemetry_complete' = FreshTracker.complete
           ELSE /\ pc' = "done" /\ ret' = LaunchError(o)
                /\ UNCHANGED tracker
    /\ UNCHANGED << variant, kill_called, wait_called, streams, line,
                    timeout_future, history, policy, signals, config, runs, setup >>

\* start_and_run_server up to the creation of the readers; the caller has
\* checked the server directory, every failure is an anyhow error
StartAndRunServer ==
    /\ pc = "start"
    /\ variant = "run"
    /\ \E o \in LaunchOutcomes \ {"path_missing"} :
        /\ launch_outcome' = o
        /\ spawned' = ChildSpawned(o)
        /\ IF Launched(o)
           THEN pc' = "loop" /\ ret' = ret
           ELSE pc' = "done" /\ ret' = "Err"
    /\ UNCHANGED << variant, kill_called, wait_called, streams, line, tracker,
                    timeout_future, history, policy, signals, config, runs, setup >>

\* ------------------------------------------------------------ the run loop
\* top of an iteration: start_server creates a new sleep, the interactive
\* loop a new ctrl_c future, which sees only interrupts delivered after it
\* was created
\* variant: the sleep is zero seconds in both branches
TimeoutFutureAlwaysDue(complete) == 0

\* "let timeout_future = if telemetry_complete { sleep(5 s) } else { sleep(0 s) }"
TimeoutFuture(complete) == IF complete THEN Timeout ELSE 0

LoopTop ==
    /\ pc = "loop"
    /\ pc' = "select"
    /\ timeout_future' =
         IF variant = "validate" THEN TimeoutFuture(telemetry_complete) ELSE 0
    /\ ctrl_c_ready' = FALSE
    /\ UNCHANGED << variant, ret, child, streams, line, tracker, history, policy,
                    interrupts, config, call, setup >>

\* the lines of the runs whose history is kept
RecordedLines == {LReady, LTelemetry, LSep54, LError, LWarn}

\* the lines the child can emit next
NextInputs ==
    IF scenario = "free"
    THEN IF nlines < MaxLines THEN Lines ELSE {}
    ELSE IF scenario = "record"
    THEN IF nlines < MaxLines THEN RecordedLines ELSE {}
    ELSE IF feed # <<>> THEN {Head(feed)} ELSE {}

\* variant: the reader hands out the newest line of the pipe first
next_lineNewestFirst(pipe) ==
    [line |-> pipe[Len(pipe)], rest |-> SubSeq(pipe, 1, Len(pipe) - 1)]

\* Lines::next_line on a pipe that holds lines: the oldest line, and what
\* stays buffered for the next call (also when the other arm wins)
next_line(pipe) == [line |-> Head(pipe), rest |-> Tail(pipe)]

\* a select arm "Ok(Some(line)) = reader.next_line()": trim, drop empty lines
TakeLine(raw, feed_after) ==
    /\ nlines' = nlines + 1
    /\ feed' = feed_after
    /\ IF Trim(raw) = <<>>
       THEN pc' = "loop" /\ line' = line
       ELSE pc' = "process" /\ line' = Trim(raw)
    /\ UNCHANGED << variant, ret, child, stdout_eof, stderr_eof, scenario,
                    tracker, timeout_future, history, policy, signals, config, call, setup >>

\* the reader of stream k (1 stdout, 2 stderr) yields a line; in the
\* two-stream run each stream has a pipe of its own
ReadFrom(k) ==
    IF scenario = "streams"
    THEN /\ feed[k] # <<>>
         /\ TakeLine(next_line(feed[k]).line,
                     [feed EXCEPT ![k] = next_line(feed[k]).rest])
    ELSE \E raw \in NextInputs :
            TakeLine(raw, IF scenario \in {"free", "record"} THEN feed
                          ELSE Tail(feed))

ReadStdout ==
    /\ pc = "select"
    /\ ~stdout_eof
    /\ ReadFrom(1)

ReadStderr ==
    /\ pc = "select"
    /\ ~stderr_eof
    /\ ReadFrom(2)

\* the body of a line arm: process_line, or process_server_line
ProcessLine ==
    /\ pc = "process"
    /\ pc' = "loop"
    /\ line' = line
    /\ IF variant = "validate"
       THEN LET st == process_line(line,
                        [vr |-> validation_result, elapsed |-> last_log_elapsed,
                         seen |-> telemetry_seen, started |-> server_started,
                         complete |-> telemetry_complete])
            IN /\ validation_result' = st.vr
               /\ last_log_elapsed' = st.elapsed
               /\ telemetry_seen' = st.seen
               /\ server_started' = st.started
               /\ telemetry_complete' = st.complete
       ELSE /\ server_started' = process_server_line(line, server_started)
            /\ UNCHANGED << validation_result, last_log_elapsed,
                            telemetry_seen, telemetry_complete >>
    /\ after_telemetry' =
         IF Contains(line, TelemetryMarker) THEN TRUE
         ELSE IF telemetry_seen /\ ~telemetry_seen' THEN FALSE
         ELSE after_telemetry
    /\ after_begin' =
         IF Contains(line, TelemetryMarker) /\ ~Contains(line, ServerStartedMarker)
         THEN TRUE
         ELSE IF telemetry_seen /\ ~telemetry_seen' THEN FALSE
         ELSE after_begin
    /\ after_ready' = (after_ready \/ Contains(line, ServerStartedMarker))
    /\ processed' = IF scenario \in {"record", "streams"}
                     THEN Append(processed, line)
                     ELSE processed
    /\ UNCHANGED << variant, ret, child, streams, timeout_future, policy,
                    signals, config, call, setup >>

\* the child closes a stream; from then on next_line yields Ok(None), the
\* pattern of the arm does not match and the arm is disabled
CloseStdout ==
    /\ pc = "select"
    /\ scenario = "free"
    /\ ~stdout_eof
    /\ stdout_eof' = TRUE
    /\ UNCHANGED << variant, pc, ret, child, stderr_eof, scenario, feed, nlines,
                    line, tracker, timeout_future, history, policy, signals, config, call, setup >>

CloseStderr ==
    /\ pc = "select"
    /\ scenario = "free"
    /\ ~stderr_eof
    /\ stderr_eof' = TRUE
    /\ UNCHANGED << variant, pc, ret, child, stdout_eof, scenario, feed, nlines,
                    line, tracker, timeout_future, history, policy, signals, config, call, setup >>

\* one unit of time passes while the task waits in select.  A sleep that is
\* due wakes the task, so time does not run past an armed deadline; the
\* zero sleep of the unarmed phase is due at once and time passes over the
\* iterations it drives.
Tick ==
    /\ pc = "select"
    /\ variant = "validate"
    /\ timeout_future > 0 \/ ~telemetry_complete
    /\ timeout_future' = IF timeout_future > 0 THEN timeout_future - 1 ELSE 0
    /\ last_log_elapsed' =
         IF last_log_elapsed < MaxElapsed THEN last_log_elapsed + 1 ELSE MaxElapsed
    /\ UNCHANGED << variant, pc, ret, child, streams, line, validation_result,
                    telemetry_seen, server_started, telemetry_complete,
                    history, policy, signals, config, call, setup >>

\* an arm whose pattern "_" matches whatever its future yields cannot be
\* disabled: the timeout arm of start_server, the ctrl_c arm of the
\* interactive loop
HasIrrefutableArm == variant = "validate" \/ variant = "run"

\* "else => break" is taken when every arm of the select is disabled
AllArmsDisabled == stdout_eof /\ stderr_eof /\ ~HasIrrefutableArm

\* variant: the timeout arm breaks whatever the flag says
AfterTimeoutAlwaysBreaks(complete) == "kill"

\* the body of the timeout arm: "if telemetry_complete { break }"
AfterTimeout(complete) == IF complete THEN "kill" ELSE "loop"

\* the select resolves without a line: "else => break" if every arm is
\* disabled, otherwise the arm "_ = timeout_future" once the sleep is due
TimeoutBranch ==
    /\ pc = "select"
    /\ IF AllArmsDisabled
       THEN pc' = "kill"
       ELSE /\ variant = "validate"
            /\ timeout_future = 0
            /\ pc' = AfterTimeout(telemetry_complete)
    /\ UNCHANGED << variant, ret, child, streams, line, tracker, timeout_future,
                    history, policy, signals, config, call, setup >>

\* the operator presses Ctrl+C.  The handler installed by the first ctrl_c
\* call takes the signal; it reaches the ctrl_c future if the task waits in
\* select, and nobody if the task is in the body of a line arm, where no
\* ctrl_c future exists
Interrupt ==
    /\ variant = "run"
    /\ pc \in {"select", "process"}
    /\ interrupts < MaxInterrupts
    /\ interrupts' = interrupts + 1
    /\ ctrl_c_ready' = (pc = "select")
    /\ UNCHANGED << variant, pc, ret, child, streams, line, tracker,
                    timeout_future, history, policy, config, call, setup >>

\* the arm "_ = signal::ctrl_c()" of the interactive loop
CtrlC ==
    /\ pc = "select"
    /\ variant = "run"
    /\ ctrl_c_ready
    /\ pc' = "kill"
    /\ UNCHANGED << variant, ret, child, streams, line, tracker, timeout_future,
                    history, policy, signals, config, call, setup >>

\* ------------------------------------------------------------ after the loop
ErrKind == IF variant = "validate" THEN "ServerStartFailed" ELSE "Err"

Kill ==
    /\ pc = "kill"
    /\ kill_called' = TRUE
    /\ \E ok \in BOOLEAN :
        IF ok THEN pc' = "wait" /\ ret' = ret
        ELSE pc' = "done" /\ ret' = ErrKind
    /\ UNCHANGED << variant, spawned, wait_called, streams, line, tracker,
                    timeout_future, history, policy, signals, config, call, setup >>

Wait ==
    /\ pc = "wait"
    /\ wait_called' = TRUE
    /\ pc' = "done"
    /\ \E ok \in BOOLEAN : ret' = IF ok THEN "Ok" ELSE ErrKind
    /\ UNCHANGED << variant, spawned, kill_called, streams, line, tracker,
                    timeout_future, history, policy, signals, config, call, setup >>

\* the keys of the HashMap the grouping loop fills
Categories(findings) ==
    { GroupFinding(findings[i]).category : i \in 1..Len(findings) }

\* the Vec under one key: the messages pushed for it, in the order of the
\* loop over the findings
GroupMessages(findings, category) ==
    LET IsOfCategory(f) == GroupFinding(f).category = category
        members == SelectSeq(findings, IsOfCategory)
    IN [i \in 1..Len(members) |-> GroupFinding(members[i]).message]

\* "for (category, errors) in grouped_errors": std HashMap yields its
\* entries in an arbitrary order
HashMapOrders(keys) ==
    { o \in [1..Cardinality(keys) -> keys] :
        \A i, j \in 1..Cardinality(keys) : i # j => o[i] # o[j] }

\* the groups printed for one severity when the map is iterated in order
PrintGroups(findings, order) ==
    [i \in 1..Len(order) |->
        [category |-> order[i], messages |-> GroupMessages(findings, order[i])]]

\* what reaches the terminal: a panic in a grouping loop ends the process
\* before the groups of that severity and all that follows
PrintedReport(vr, error_order, warning_order) ==
    IF GroupingPanics(vr.errors) THEN NothingPrinted
    ELSE [errors |-> PrintGroups(vr.errors, error_order),
          warnings |-> IF GroupingPanics(vr.warnings) THEN <<>>
                       ELSE PrintGroups(vr.warnings, warning_order)]

\* handle_validate hands the result of start_server to
\* handle_validation_results together with the two policy flags
HandleValidationResults ==
    /\ pc = "done"
    /\ variant = "validate"
    /\ ret = "Ok"
    /\ pc' = "exit"
    /\ \E ow \in BOOLEAN, fw \in BOOLEAN :
        /\ only_warn' = ow
        /\ fail_on_warn' = fw
        /\ outcome' = handle_validation_results(validation_result, ow, fw)
    /\ \E error_order \in HashMapOrders(Categories(validation_result.errors)),
          warning_order \in HashMapOrders(Categories(validation_result.warnings)) :
        report' = PrintedReport(validation_result, error_order, warning_order)
    /\ UNCHANGED << variant, ret, child, streams, line, tracker, timeout_future,
                    history, signals, config, call, setup >>

Next ==
    \/ StartServer
    \/ StartAndRunServer
    \/ LoopTop
    \/ ReadStdout
    \/ ReadStderr
    \/ ProcessLine
    \/ CloseStdout
    \/ CloseStderr
    \/ Tick
    \/ TimeoutBranch
    \/ Interrupt
    \/ CtrlC
    \/ Kill
    \/ Wait
    \/ HandleValidationResults

Spec == Init /\ [][Next]_vars

NextScenario ==
    \/ StartServer
    \/ LoopTop
    \/ ReadStdout
    \/ ReadStderr
    \/ ProcessLine
    \/ Tick
    \/ TimeoutBranch
    \/ Kill
    \/ Wait
    \/ HandleValidationResults

SpecScenario == InitScenario /\ [][NextScenario]_vars

\* start_server is called again after it returned: the child, the readers
\* and the loop position are those of a new call, the memory the previous
\* call used is whatever it left
Rerun ==
    /\ pc = "done"
    /\ variant = "validate"
    /\ runs < MaxRuns
    /\ runs' = runs + 1
    /\ pc' = "start"
    /\ ret' = "none"
    /\ launch_outcome' = "none"
    /\ spawned' = FALSE /\ kill_called' = FALSE /\ wait_called' = FALSE
    /\ stdout_eof' = FALSE /\ stderr_eof' = FALSE
    /\ nlines' = 0
    /\ line' = <<>>
    /\ timeout_future' = 0
    /\ after_telemetry' = FALSE /\ after_begin' = FALSE /\ after_ready' = FALSE
    /\ processed' = <<>>
    /\ UNCHANGED << variant, scenario, feed, tracker, policy, signals, config,
                    setup >>

InitRerun ==
    /\ InitCommon
    /\ InitSetup
    /\ variant = "validate"
    /\ last_log_timeout = <<>>
    /\ scenario = "record"
    /\ feed = <<>>

NextRerun ==
    \/ StartServer
    \/ LoopTop
    \/ ReadStdout
    \/ ReadStderr
    \/ ProcessLine
    \/ Tick
    \/ TimeoutBranch
    \/ Kill
    \/ Wait
    \/ Rerun

SpecRerun == InitRerun /\ [][NextRerun]_vars

\* ------------------------------------------- before the server is started
Versions == 1..MaxVersion
Packs == 1..MaxPacks

\* everything the steps before the launch leave alone
launch_state ==
    << variant, pc, ret, child, streams, line, tracker, timeout_future,
       history, policy, signals, config, call >>

\* the download command leaves one more version directory; the version a
\* previous invocation settled on is gone with that invocation
Download ==
    /\ \E v \in Versions \ installed : installed' = installed \cup {v}
    /\ version' = Unresolved
    /\ UNCHANGED << packs, bp_dir, rp_dir, pack_args, pack_ret, launch_state >>

\* the orders in which read_dir can enumerate the directories of S
Listings(S) ==
    { l \in [1..Cardinality(S) -> S] :
        \A i, j \in 1..Cardinality(S) : i # j => l[i] # l[j] }

\* list_servers: the directory names in the order read_dir yields them
list_servers == Listings(installed)

\* "let version = match version { Some(v) => v, None => versions.last() }"
\* of handle_validate and of handle_run, and the existence test after it
ResolveVersion ==
    /\ \E arg \in {<<>>} \cup { << v >> : v \in Versions } :
       \E versions \in list_servers :
         LET chosen == IF arg # <<>> THEN arg
                       ELSE IF versions = <<>> THEN <<>>
                       ELSE << versions[Len(versions)] >>
         IN version' = [arg |-> arg,
                        used |-> IF chosen # <<>> /\ chosen[1] \in installed
                                 THEN chosen ELSE <<>>]
    /\ UNCHANGED << installed, packs, bp_dir, rp_dir, pack_args, pack_ret,
                    launch_state >>

\* the user creates or deletes a pack directory
CreatePack ==
    /\ \E p \in Packs \ packs : packs' = packs \cup {p}
    /\ UNCHANGED << installed, version, bp_dir, rp_dir, pack_args, pack_ret,
                    launch_state >>

DeletePack ==
    /\ \E p \in packs : packs' = packs \ {p}
    /\ UNCHANGED << installed, version, bp_dir, rp_dir, pack_args, pack_ret,
                    launch_state >>

\* a directory entry: <<>> nothing there, <<"dir">> a directory,
\* <<"link", p>> a symbolic link to pack p
IsLink(e) == Len(e) = 2
LinkTo(p) == << "link", p >>

\* Path::exists and fs::metadata follow symbolic links: a link whose target
\* is gone is reported like a missing entry
Exists(e) == e = << "dir" >> \/ (IsLink(e) /\ e[2] \in packs)

\* cleanup_path of symlink_test_packs: remove_file, then remove_dir_all, if
\* fs::metadata answers Ok
cleanup_path(e) == IF Exists(e) THEN <<>> ELSE e

\* "if bp_dir.exists() { remove_dir_all }" of copy_test_packs
ClearExisting(e) == IF Exists(e) THEN <<>> ELSE e

\* the three path checks both functions start with
PathError(server_ok, bp, rp) ==
    IF ~server_ok THEN "InvalidServerPath"
    ELSE IF bp \notin packs \/ rp \notin packs THEN "InvalidPackPath"
    ELSE "none"

\* symlink_test_packs; the manifests are readable and the world
\* configuration can be written
SymlinkTestPacks ==
    /\ \E server_ok \in BOOLEAN, bp \in Packs, rp \in Packs :
        LET err == PathError(server_ok, bp, rp)
            bp0 == cleanup_path(bp_dir)
            rp0 == cleanup_path(rp_dir)
        IN /\ pack_args' = [op |-> "symlink", bp |-> bp, rp |-> rp,
                            valid |-> (err = "none")]
           /\ IF err # "none"
              THEN pack_ret' = err /\ UNCHANGED << bp_dir, rp_dir >>
              ELSE IF bp0 # <<>>
              THEN \* symlink() of the behavior pack: EEXIST
                   pack_ret' = "PackCopyFailed" /\ bp_dir' = bp0 /\ rp_dir' = rp0
              ELSE IF rp0 # <<>>
              THEN pack_ret' = "PackCopyFailed" /\ bp_dir' = LinkTo(bp)
                                               /\ rp_dir' = rp0
              ELSE pack_ret' = "Ok" /\ bp_dir' = LinkTo(bp) /\ rp_dir' = LinkTo(rp)
    /\ UNCHANGED << installed, version, packs, launch_state >>

\* copy_test_packs; copy_dir starts with create_dir_all, which fails on a
\* link whose target is gone
CopyTestPacks ==
    /\ \E server_ok \in BOOLEAN, bp \in Packs, rp \in Packs :
        LET err == PathError(server_ok, bp, rp)
            bp0 == ClearExisting(bp_dir)
            rp0 == ClearExisting(rp_dir)
        IN /\ pack_args' = [op |-> "copy", bp |-> bp, rp |-> rp,
                            valid |-> (err = "none")]
           /\ IF err # "none"
              THEN pack_ret' = err /\ UNCHANGED << bp_dir, rp_dir >>
              ELSE IF bp0 # <<>>
              THEN pack_ret' = "PackCopyFailed" /\ bp_dir' = bp0 /\ rp_dir' = rp0
              ELSE IF rp0 # <<>>
              THEN pack_ret' = "PackCopyFailed" /\ bp_dir' = << "dir" >>
                                               /\ rp_dir' = rp0
              ELSE pack_ret' = "Ok" /\ bp_dir' = << "dir" >>
                                   /\ rp_dir' = << "dir" >>
    /\ UNCHANGED << installed, version, packs, launch_state >>

InitBeforeLaunch ==
    /\ InitCommon
    /\ InitSetup
    /\ variant = "validate"
    /\ last_log_timeout = <<>>
    /\ scenario = "free"
    /\ feed = <<>>

NextBeforeLaunch ==
    \/ Download
    \/ ResolveVersion
    \/ CreatePack
    \/ DeletePack
    \/ SymlinkTestPacks
    \/ CopyTestPacks

SpecBeforeLaunch == InitBeforeLaunch /\ [][NextBeforeLaunch]_vars

\* the run in which the child writes OutScript to stdout and ErrScript to
\* stderr and the loop takes the lines in any interleaving
InitStreams ==
    /\ InitCommon
    /\ InitSetup
    /\ variant = "validate"
    /\ last_log_timeout = <<>>
    /\ scenario = "streams"
    /\ feed = << OutScript, ErrScript >>

NextStreams ==
    \/ StartServer
    \/ LoopTop
    \/ ReadStdout
    \/ ReadStderr
    \/ ProcessLine
    \/ Tick
    \/ TimeoutBranch

SpecStreams == InitStreams /\ [][NextStreams]_vars

\* ----------------------------------------------------------- the report
\* findings start_server can return: lines with ERROR in errors, lines with
\* WARN and without ERROR in warnings
ErrorFindings == { LError, LMixed, LStderrError }
WarningFindings == { Trim(LWarn), LStderrWarn }

BoundedSeq(S, n) == UNION { [1..k -> S] : k \in 0..n }

\* start_server has returned Ok: the server was ready and printed the
\* findings, then the telemetry block, the separator came last and the idle
\* timeout expired
InitReport ==
    /\ InitSetup
    /\ variant = "validate"
    /\ last_log_timeout = <<>>
    /\ scenario = "free"
    /\ feed = <<>>
    /\ pc = "done"
    /\ ret = "Ok"
    /\ launch_outcome = "running"
    /\ runs = 1
    /\ spawned = TRUE /\ kill_called = TRUE /\ wait_called = TRUE
    /\ stdout_eof = FALSE /\ stderr_eof = FALSE
    /\ validation_result \in
         [errors : BoundedSeq(ErrorFindings, MaxFindings),
          warnings : BoundedSeq(WarningFindings, MaxFindings - 1),
          info : {<<>>}]
    /\ nlines = 3 + Len(validation_result.errors) + Len(validation_result.warnings)
    /\ line = LSep54
    /\ last_log_elapsed = Timeout
    /\ telemetry_seen = FALSE
    /\ server_started = TRUE
    /\ telemetry_complete = TRUE
    /\ timeout_future = 0
    /\ after_telemetry = FALSE /\ after_begin = FALSE /\ after_ready = TRUE
    /\ processed = <<>>
    /\ only_warn = FALSE /\ fail_on_warn = FALSE
    /\ outcome = "none"
    /\ report = NothingPrinted
    /\ interrupts = 0 /\ ctrl_c_ready = FALSE

NextReport == HandleValidationResults

SpecReport == InitReport /\ [][NextReport]_vars

TypeOK ==
    /\ pc \in {"start", "loop", "select", "process", "kill", "wait", "done", "exit"}
    /\ timeout_future \in 0..Timeout
    /\ last_log_elapsed \in 0..MaxElapsed
    /\ nlines \in 0..(MaxLines + 7)

\* a specification with the fairness the runtime gives: the task is run
\* whenever it can take a step and the clock advances; the child owes nothing
Fairness ==
    /\ WF_vars(StartServer) /\ WF_vars(StartAndRunServer)
    /\ WF_vars(LoopTop) /\ WF_vars(ProcessLine)
    /\ WF_vars(Tick) /\ WF_vars(TimeoutBranch) /\ WF_vars(CtrlC)
    /\ WF_vars(Kill) /\ WF_vars(Wait)
    /\ WF_vars(HandleValidationResults)

FairSpec == Spec /\ Fairness

FairSpecScenario == SpecScenario /\ Fairness

\* ================================================================= claims
InLoop == pc \in {"loop", "select", "process"}
LoopLeft == pc \in {"kill", "wait", "done", "exit"}
Buckets == validation_result
ErrorCount == Len(validation_result.errors)
WarningCount == Len(validation_result.warnings)

\* C1 (as stated): in start_server, once both streams of the child are at
\* end-of-stream the loop is eventually left, whether or not the telemetry
\* block has completed.
C1_ExhaustedStreamsEndLoop ==
    [] ( (variant = "validate" /\ InLoop /\ stdout_eof /\ stderr_eof)
         => <> LoopLeft )

\* C2 (as stated): once telemetry is complete the loop is not still running
\* when more than the timeout has passed since the last recorded Finding
\* (last_log_time is set by exactly the lines that are recorded, and by the
\* telemetry markers), whatever unrecorded lines arrive in between.
C2_IdleExpiryIgnoresUnrecordedLines ==
    (variant = "validate" /\ telemetry_complete /\ InLoop)
        => last_log_elapsed <= Timeout

\* C3 (as stated): every return after the child was spawned has been
\* preceded by child.kill() and then child.wait().
C3_EveryExitKillsAndWaits ==
    (pc \in {"done", "exit"} /\ spawned) => (kill_called /\ wait_called)

\* C4: a line without the server-ready and telemetry markers that carries a
\* severity keyword is appended to exactly the bucket of its highest
\* keyword when started and outside the telemetry block, and changes no
\* bucket otherwise.
TopBucket(l) ==
    IF Contains(l, ErrorKw) THEN "errors"
    ELSE IF Contains(l, WarnKw) THEN "warnings" ELSE "info"

C4_SeverityLineStep ==
    (pc = "process" /\ variant = "validate"
     /\ ~Contains(line, ServerStartedMarker) /\ ~Contains(line, TelemetryMarker)
     /\ HasSeverity(line))
    => IF server_started /\ ~telemetry_seen
       THEN /\ validation_result'[TopBucket(line)]
                 = Append(validation_result[TopBucket(line)], line)
            /\ \A b \in {"errors", "warnings", "info"} \ {TopBucket(line)} :
                 validation_result'[b] = validation_result[b]
       ELSE validation_result' = validation_result

C4_OneBucketPerSeverityLine == [][C4_SeverityLineStep]_vars

\* a line with all three keywords went to errors, and one with WARN only
\* was recorded as a warning
C4_Witness ==
    /\ variant = "validate" /\ pc = "loop"
    /\ validation_result.errors = << LMixed >>
    /\ validation_result.warnings = << Trim(LWarn) >>
    /\ validation_result.info = <<>>

\* C5: while no line containing "Server started." has been processed, the
\* three buckets are empty.
C5_NothingBeforeReady ==
    (variant = "validate" /\ ~after_ready) => validation_result = EmptyResult

\* severity lines were processed before the ready marker and dropped
C5_Witness ==
    /\ variant = "validate" /\ pc = "loop" /\ ~after_ready
    /\ nlines >= 2 /\ line = LError /\ ~telemetry_seen
    /\ validation_result = EmptyResult

\* C6 (as stated): after a line containing "TELEMETRY MESSAGE", and until
\* a separator ends the block, no step changes a bucket.
C6_NothingAfterTelemetryLine ==
    [][(variant = "validate" /\ after_telemetry)
         => validation_result' = validation_result]_vars

\* C6 (amended): after a line containing "TELEMETRY MESSAGE" and not
\* "Server started.", and until a separator ends the block, no step changes
\* a bucket.
C6_NothingInsideBlock ==
    [][(variant = "validate" /\ after_begin)
         => validation_result' = validation_result]_vars

\* started, inside the block, an ERROR line was processed and dropped
C6_Witness ==
    /\ variant = "validate" /\ pc = "loop"
    /\ after_begin /\ after_ready /\ line = LError
    /\ validation_result = EmptyResult

\* C7 (as stated): the phase Complete is never left.
Phase ==
    IF telemetry_seen THEN "InBlock"
    ELSE IF telemetry_complete THEN "Complete" ELSE "NotSeen"

ScenarioExpected ==
    [errors |-> << LError >>, warnings |-> <<>>, info |-> << LInfo >>]

ScenarioFed == feed = <<>> /\ pc \notin {"start", "process"}

\* C8 (as stated): with the separator of 52 '=' characters, once the seven
\* lines are processed the result is the expected one.
C8_Scenario52 ==
    (scenario = "sep52" /\ ScenarioFed) => validation_result = ScenarioExpected

\* C8 (amended): with a separator of 54 '=' characters, once the seven lines
\* are processed the result is the expected one, the run ends, and the
\* Normal policy fails it.
C8_Scenario54 ==
    /\ [] ( (scenario = "sep54" /\ ScenarioFed)
            => /\ validation_result = ScenarioExpected
               /\ (pc = "exit" /\ ~only_warn /\ ~fail_on_warn) => outcome = "Err" )
    /\ [] ( (scenario = "sep54" /\ ScenarioFed) => <> (pc \in {"done", "exit"}) )

C8_Witness ==
    /\ scenario = "sep54" /\ ScenarioFed /\ pc = "exit"
    /\ kill_called /\ wait_called /\ last_log_elapsed = Timeout
    /\ validation_result = ScenarioExpected
    /\ ~only_warn /\ ~fail_on_warn /\ outcome = "Err"

\* C9 (as stated): handle_validation_results returns Ok exactly when the
\* policy passes the counts, and Err otherwise.
PolicyPasses(e, w) ==
    \/ only_warn
    \/ ~only_warn /\ fail_on_warn /\ e = 0 /\ w = 0
    \/ ~only_warn /\ ~fail_on_warn /\ e = 0

C9_VerdictFromCounts ==
    pc = "exit"
        => outcome = IF PolicyPasses(ErrorCount, WarningCount) THEN "Ok" ELSE "Err"

\* C10 (as stated): building the report never aborts, and every result with
\* the same two counts gets the same outcome under the same policy.
FindingTexts ==
    { Trim(l) : l \in { x \in Lines : HasSeverity(x) /\ ~IsServerStarted(x)
                                       /\ ~IsTelemetryBegin(x) } }

SameCounts(e, w) ==
    [errors : [1..e -> FindingTexts], warnings : [1..w -> FindingTexts],
     info : {<<>>}]

C10_GroupingNeverDecides ==
    pc = "exit"
        => /\ outcome # "panic"
           /\ \A r \in SameCounts(ErrorCount, WarningCount) :
                handle_validation_results(r, only_warn, fail_on_warn) = outcome

\* C11 (as stated): in the report every error and warning is grouped: under
\* its second bracket segment with the text after the second ']' when it has
\* two ']', under "Other" with its full text otherwise.
BracketPositions(f) == { i \in 1..Len(f) : f[i] = "]" }

NthBracket(f, n) ==
    CHOOSE i \in BracketPositions(f) :
        Cardinality({ j \in BracketPositions(f) : j < i }) = n - 1

ClaimedGroup(f) ==
    IF Cardinality(BracketPositions(f)) >= 2
    THEN [panic |-> FALSE,
          category |-> TrimStartMatches(
                         Trim(SubSeq(f, NthBracket(f, 1) + 1, NthBracket(f, 2) - 1)),
                         "["),
          message |-> Trim(SubSeq(f, NthBracket(f, 2) + 1, Len(f)))]
    ELSE [panic |-> FALSE, category |-> <<"Other">>, message |-> f]

C11_EveryFindingGrouped ==
    pc = "exit"
        => \A f \in { validation_result.errors[i] : i \in 1..ErrorCount }
                    \cup { validation_result.warnings[i] : i \in 1..WarningCount } :
             GroupFinding(f) = ClaimedGroup(f)

\* C12 (as stated): in the interactive loop, once both streams of the child
\* are at end-of-stream the loop is eventually left, with no interrupt needed.
C12_InteractiveExhaustedStreamsEndLoop ==
    [] ( (variant = "run" /\ InLoop /\ stdout_eof /\ stderr_eof /\ interrupts = 0)
         => <> (LoopLeft /\ interrupts = 0) )

\* C13 (as stated): an operator interrupt delivered while the interactive
\* loop runs, in select or in the body of a line arm, eventually ends the loop.
C13_NoInterruptLost ==
    [] ( (variant = "run" /\ InLoop /\ interrupts > 0) => <> LoopLeft )

\* C14: the loop of start_server is left through idle expiry only when at
\* least the timeout has passed since the last recorded Finding, so Findings
\* that follow each other at shorter gaps keep the loop running.
C14_NoExpiryBetweenCloseFindings ==
    [][(variant = "validate" /\ pc = "select" /\ pc' = "kill")
         => last_log_elapsed >= Timeout]_vars

\* a Finding was recorded after the telemetry block, and the loop was left
\* the full timeout later
C14_Witness ==
    /\ variant = "validate" /\ pc = "kill"
    /\ telemetry_complete /\ ~telemetry_seen
    /\ line = LError /\ validation_result.errors = << LError >>
    /\ last_log_elapsed = Timeout

\* the timeout the caller configured: --last-log-timeout, 2 seconds if absent
ConfiguredTimeout ==
    IF last_log_timeout = <<>> THEN DefaultLastLogTimeout ELSE last_log_timeout[1]

\* C15 (as stated): the countdown armed once telemetry is complete lasts the
\* number of seconds the caller configured, so runs configured differently
\* expire after different idle periods.
C15_CountdownIsConfigured ==
    [][(variant = "validate" /\ pc = "loop" /\ pc' = "select"
            /\ telemetry_complete)
         => timeout_future' = ConfiguredTimeout]_vars

StartFailures ==
    {"chmod_failed", "spawn_failed", "stdout_not_captured", "stderr_not_captured"}

C20_MarkersShortCircuit ==
    [][(variant = "validate" /\ pc = "process" /\ pc' = "loop") =>
        /\ Contains(line, ServerStartedMarker) =>
              /\ server_started'
              /\ telemetry_seen' = telemetry_seen
              /\ telemetry_complete' = telemetry_complete
              /\ last_log_elapsed' = last_log_elapsed
              /\ validation_result' = validation_result
        /\ (Contains(line, TelemetryMarker) /\ ~Contains(line, ServerStartedMarker)) =>
              /\ telemetry_seen'
              /\ last_log_elapsed' = 0
              /\ server_started' = server_started
              /\ telemetry_complete' = telemetry_complete
              /\ validation_result' = validation_result
        /\ (telemetry_seen /\ Contains(line, Separator)
                /\ ~Contains(line, TelemetryMarker)
                /\ ~Contains(line, ServerStartedMarker)) =>
              /\ ~telemetry_seen'
              /\ telemetry_complete'
              /\ server_started' = server_started
              /\ validation_result' = validation_result
    ]_vars

\* a line with both markers and a keyword was processed inside the block,
\* after findings had been recorded: the block is still open, nothing added
C20_Witness ==
    /\ variant = "validate"
    /\ pc = "loop"
    /\ line = LReadyTelemetry
    /\ server_started
    /\ telemetry_seen
    /\ validation_result.errors = << LError >>

\* the initial phase of the claim: not started, telemetry not seen, not
\* complete, empty buckets
InitialPhase ==
    [vr |-> EmptyResult, elapsed |-> 0, seen |-> FALSE, started |-> FALSE,
     complete |-> FALSE]

RECURSIVE RunLines(_, _)
\* process_line applied to the lines of ls in order
RunLines(ls, st) ==
    IF ls = <<>> THEN st ELSE RunLines(Tail(ls), process_line(Head(ls), st))

\* C17: in every call of start_server, the first and the one after it, the
\* buckets and the phase flags are those that the lines processed in this
\* call produce from the initial phase with empty buckets: the same lines give
\* the same lists whatever the timing and whatever the call before left, and
\* the idle clock of a call starts at zero.
C17_FreshAndDetermined ==
    /\ [] ( Launched(launch_outcome) =>
              LET st == RunLines(processed, InitialPhase)
              IN /\ validation_result = st.vr
                 /\ telemetry_seen = st.seen
                 /\ server_started = st.started
                 /\ telemetry_complete = st.complete )
    /\ [][(pc = "start" /\ pc' = "loop") => last_log_elapsed' = 0]_vars

\* the second call has recorded a finding of its own and its telemetry block
\* is not complete
C17_Witness ==
    /\ runs = 2
    /\ pc = "loop"
    /\ processed = << LReady, LError >>
    /\ validation_result = [EmptyResult EXCEPT !.errors = << LError >>]
    /\ server_started /\ ~telemetry_seen /\ ~telemetry_complete

\* C18 (as stated): every call of symlink_test_packs with a valid server
\* directory and valid pack directories succeeds and leaves both test-pack
\* locations linked to the packs of that call, whatever was there before: a
\* link whose target was deleted, or a directory left by copy_test_packs.
C18_RelinkAlwaysSucceeds ==
    (pack_args.op = "symlink" /\ pack_args.valid) =>
        /\ pack_ret = "Ok"
        /\ bp_dir = LinkTo(pack_args.bp)
        /\ rp_dir = LinkTo(pack_args.rp)

Max(S) == CHOOSE x \in S : \A y \in S : y <= x

\* C19 (as stated): without --version the version used is the highest of the
\* installed versions, in whatever order the directory is enumerated.
C19_DefaultIsLatest ==
    (version.arg = <<>> /\ version.used # <<>>) =>
        version.used[1] = Max(installed)

\* a line with none of the marker texts and no severity keyword
PlainLine(l) ==
    /\ ~Contains(l, ServerStartedMarker)
    /\ ~Contains(l, TelemetryMarker)
    /\ ~Contains(l, Separator)
    /\ ~HasSeverity(l)

\* a line that matches no control marker in the present phase (a separator
\* is a marker only inside the block) and has no severity keyword
Unmarked(l) ==
    /\ ~Contains(l, ServerStartedMarker)
    /\ ~Contains(l, TelemetryMarker)
    /\ ~(telemetry_seen /\ Contains(l, Separator))
    /\ ~HasSeverity(l)

\* C21 (as stated): processing a non-empty line that matches no control
\* marker and has no severity keyword changes neither the started flag, nor
\* the telemetry phase, nor a bucket, nor the idle clock, and the countdown
\* the loop waits on once telemetry is complete is, in the iteration after
\* it, what it was when the line arrived.
C21_PlainLineHasNoEffect ==
    [][ /\ (variant = "validate" /\ pc = "process" /\ pc' = "loop"
                /\ Unmarked(line))
            => /\ server_started' = server_started
               /\ telemetry_seen' = telemetry_seen
               /\ telemetry_complete' = telemetry_complete
               /\ validation_result' = validation_result
               /\ last_log_elapsed' = last_log_elapsed
               /\ timeout_future' = timeout_future
        /\ (variant = "validate" /\ pc = "loop" /\ pc' = "select"
                /\ telemetry_complete /\ line # <<>> /\ PlainLine(line))
            => timeout_future' = timeout_future
      ]_vars

\* a line the tracker can take for the separator: it has the 54 '=' and
\* neither of the markers that are looked for first
SeparatorLine(l) ==
    /\ Contains(l, Separator)
    /\ ~Contains(l, ServerStartedMarker)
    /\ ~Contains(l, TelemetryMarker)

\* C22: telemetry_complete is set only by a separator line processed while
\* the block is open, and the block is open only since a line with
\* "TELEMETRY MESSAGE"; every separator line processed inside the block
\* closes it, so the closing one is the first after that line.  A separator
\* line processed while no block is open changes neither flag, and the
\* sleep of the loop is armed only when telemetry_complete is set.
C22_EndOnlyInsideBlock ==
    /\ [][(variant = "validate" /\ pc = "process" /\ pc' = "loop") =>
            /\ (telemetry_complete' /\ ~telemetry_complete)
                  => (telemetry_seen /\ after_begin /\ SeparatorLine(line))
            /\ (telemetry_seen' /\ ~telemetry_seen)
                  => Contains(line, TelemetryMarker)
            /\ (telemetry_seen /\ SeparatorLine(line))
                  => (~telemetry_seen' /\ telemetry_complete')
            /\ (~telemetry_seen /\ SeparatorLine(line))
                  => /\ telemetry_complete' = telemetry_complete
                     /\ ~telemetry_seen'
       ]_vars
    /\ [] ((variant = "validate" /\ timeout_future > 0) => telemetry_complete)

\* a separator was processed after the server was ready and after a line
\* with the telemetry text that opened no block: nothing is complete, and
\* the loop waits on a sleep of zero seconds
C22_Witness ==
    /\ variant = "validate"
    /\ pc = "select"
    /\ line = LSep54
    /\ server_started /\ after_telemetry /\ ~after_begin
    /\ ~telemetry_seen /\ ~telemetry_complete
    /\ timeout_future = 0

\* C23: while telemetry_complete is not set, start_server does not leave its
\* loop, and a firing of the timeout arm does nothing: the loop goes back to
\* the top with the child, the streams, the flags, the buckets and the idle
\* clock as they were, and waits in the next select on the same sleep.
C23_NoExpiryBeforeComplete ==
    /\ [][(variant = "validate" /\ pc = "select" /\ ~telemetry_complete
              /\ pc' # "select" /\ nlines' = nlines)
            => /\ pc' = "loop"
               /\ timeout_future' = TimeoutFuture(telemetry_complete)
               /\ UNCHANGED << ret, child, streams, line, tracker, history >>
       ]_vars
    /\ [] ((variant = "validate" /\ LoopLeft /\ Launched(launch_outcome))
              => telemetry_complete)

\* the child has said nothing for longer than the timeout, no block has
\* ended, and the loop is still waiting
C23_Witness ==
    /\ variant = "validate"
    /\ pc = "select"
    /\ nlines = 0
    /\ last_log_elapsed > Timeout
    /\ ~telemetry_complete
    /\ timeout_future = 0

\* the positions of x in seq
Positions(seq, x) == { i \in 1..Len(seq) : seq[i] = x }

\* the lines of script that occur in seq occur once, in the order of script
KeepsOrder(script, seq) ==
    /\ \A i \in 1..Len(script) :
          Cardinality(Positions(seq, Trim(script[i]))) <= 1
    /\ \A i, j \in 1..Len(script) :
          i < j =>
            \A p \in Positions(seq, Trim(script[i])),
               q \in Positions(seq, Trim(script[j])) : p < q

\* C24: whichever stream the loop takes a line from at each turn, the lines
\* of stdout are processed in the order stdout carried them and the lines
\* of stderr in the order stderr carried them, and so they stand in each
\* bucket.
C24_StreamOrderKept ==
    scenario = "streams" =>
        \A script \in {OutScript, ErrScript} :
            /\ KeepsOrder(script, processed)
            /\ KeepsOrder(script, validation_result.errors)
            /\ KeepsOrder(script, validation_result.warnings)
            /\ KeepsOrder(script, validation_result.info)

\* both streams are read to their end; the error bucket holds a stdout
\* line, then a stderr line, then a stdout line, the warning bucket both
\* warnings of stderr
C24_Witness ==
    /\ scenario = "streams"
    /\ feed = << <<>>, <<>> >>
    /\ pc = "loop"
    /\ validation_result.errors = << LError, LStderrError, LMixed >>
    /\ validation_result.warnings = << Trim(LWarn), LStderrWarn >>
    /\ validation_result.info = << LInfo >>

RECURSIVE FirstSeen(_, _)
\* the categories of findings, each at the place of its first finding
FirstSeen(findings, seen) ==
    IF findings = <<>> THEN <<>>
    ELSE LET c == GroupFinding(Head(findings)).category IN
         IF c \in seen THEN FirstSeen(Tail(findings), seen)
         ELSE << c >> \o FirstSeen(Tail(findings), seen \cup {c})

\* the groups of findings in first-seen order, messages in arrival order
InFirstSeenOrder(findings, groups) ==
    LET order == FirstSeen(findings, {}) IN
    /\ Len(groups) = Len(order)
    /\ \A i \in 1..Len(order) :
          /\ groups[i].category = order[i]
          /\ groups[i].messages = GroupMessages(findings, order[i])

\* C25 (as stated): in the printed report the groups of each severity stand
\* in the order in which their categories were first seen among the
\* findings of that severity, and the messages of a group in arrival order.
C25_GroupsInFirstSeenOrder ==
    (variant = "validate" /\ pc = "exit" /\ outcome # "panic") =>
        /\ InFirstSeenOrder(validation_result.errors, report.errors)
        /\ InFirstSeenOrder(validation_result.warnings, report.warnings)

====
